---------------------------- MODULE Spec2Model ----------------------------
(***************************************************************************)
(* A model of kitgen's extraction-and-generation core                      *)
(* (src/kitgen/render.go): the decorator comment parser, the signature     *)
(* extractor, the template resolver and the declaration walker.            *)
(*                                                                         *)
(* Strings the code inspects character by character are sequences of       *)
(* one-character strings; Go's nil slice is the empty sequence (a decoded  *)
(* CSV record always has at least one field, so "params != nil" is         *)
(* "params # <<>>"); a Go map is a function whose DOMAIN is its key set.   *)
(***************************************************************************)
EXTENDS Integers, Sequences, FiniteSets, TLC

VARIABLES
    \* TypeRender.parseDecorators, one loop iteration per step
    comments,      \* comments.List: the comment block being parsed
    line,          \* index of the next comment of the range loop
    decorators,    \* the named result of parseDecorators
    \* TypeRender.parseFieldList
    fields,        \* fields.List: the argument
    types,         \* what the call returned (or that it panicked)
    \* the template helper functions
    helperArg,     \* the helper called and its argument
    helperOut,     \* what it returned (or that it panicked)
    \* the declaration walker: TypeRender.visit and loadTemplate
    fs,            \* the template namespace FS(*debugMode) serves
    registry,      \* topLevelTemplate's set: template name -> body
    pc,            \* "walk", "render" (in the loops of visit), "exit", "panic"
    visits,        \* calls of visit so far
    specs,         \* visit's local: what parseSpecs returned
    work,          \* the (decorator, name) pairs the loops still range over
    buf,           \* TypeRender.buf, one element per Execute
    loads,         \* the paths logged by loadTemplate, one per call
    opens,         \* how many times FS.Open was called
    fatal,         \* the text log.Fatal printed
    history        \* what each visited node was

decVars    == <<comments, line, decorators>>
fieldVars  == <<fields, types>>
helperVars == <<helperArg, helperOut>>
walkVars   == <<fs, registry, pc, visits, specs, work, buf, loads, opens, fatal, history>>
vars       == <<comments, line, decorators, fields, types, helperArg, helperOut,
                fs, registry, pc, visits, specs, work, buf, loads, opens, fatal, history>>

---------------------------------------------------------------------------
\* Bounds of the model.
MaxLines == 3

---------------------------------------------------------------------------
\* Generic helpers on sequences.

Range(s) == {s[i] : i \in 1..Len(s)}

IsPrefix(s, t) == Len(s) <= Len(t) /\ SubSeq(t, 1, Len(s)) = s

\* strings.TrimSpace on a sequence of characters
RECURSIVE TrimLeft(_)
TrimLeft(s) == IF s # <<>> /\ Head(s) = " " THEN TrimLeft(Tail(s)) ELSE s

RECURSIVE TrimRight(_)
TrimRight(s) ==
    IF s # <<>> /\ s[Len(s)] = " " THEN TrimRight(SubSeq(s, 1, Len(s) - 1)) ELSE s

TrimSpace(s) == TrimRight(TrimLeft(s))

\* strings.Index for a single character: 0 when c does not occur in s
RECURSIVE IndexOf(_, _)
IndexOf(s, c) ==
    IF s = <<>> THEN 0
    ELSE IF Head(s) = c THEN 1
    ELSE LET r == IndexOf(Tail(s), c) IN IF r = 0 THEN 0 ELSE r + 1

\* A Go map as a function: the nil (or empty) map, and m[k] = v
NilMap == [k \in {} |-> <<>>]

MapSet(m, k, v) == [x \in DOMAIN m \cup {k} |-> IF x = k THEN v ELSE m[x]]

---------------------------------------------------------------------------
(***************************************************************************)
(* The Decorator Comment Parser: TypeRender.parseDecorators.               *)
(***************************************************************************)

\* csv.Reader.Read results: err # nil, or one record of at least one field
CsvErr == [err |-> TRUE, fields |-> <<>>]

CsvOk(record) == [err |-> FALSE, fields |-> record]

\* One record of encoding/csv with Comma = ',', LazyQuotes = false and
\* TrimLeadingSpace = true.  csvRecord reads the fields of the rest of the
\* line; csvQuoted reads on inside a quoted field.
RECURSIVE csvRecord(_, _)
RECURSIVE csvQuoted(_, _, _)
csvRecord(text, acc) ==
    LET l == TrimLeft(text) IN
    IF l = <<>> \/ Head(l) # "\""
    THEN LET i     == IndexOf(l, ",")
             field == IF i = 0 THEN l ELSE SubSeq(l, 1, i - 1)
         IN  IF "\"" \in Range(field) THEN CsvErr                \* bare quote
             ELSE IF i = 0 THEN CsvOk(Append(acc, field))
             ELSE csvRecord(SubSeq(l, i + 1, Len(l)), Append(acc, field))
    ELSE csvQuoted(Tail(l), <<>>, acc)

csvQuoted(l, field, acc) ==
    LET i == IndexOf(l, "\"") IN
    IF i = 0 THEN CsvErr                           \* no closing quote
    ELSE LET f2   == field \o SubSeq(l, 1, i - 1)
             rest == SubSeq(l, i + 1, Len(l))
         IN  IF rest = <<>> THEN CsvOk(Append(acc, f2))
             ELSE IF Head(rest) = "\"" THEN csvQuoted(Tail(rest), Append(f2, "\""), acc)
             ELSE IF Head(rest) = "," THEN csvRecord(Tail(rest), Append(acc, f2))
             ELSE CsvErr                           \* text after the closing quote

\* r := csv.NewReader(...); r.Comment = '#'; r.TrimLeadingSpace = true; r.Read():
\* an empty line and a comment line are skipped, and then the input has ended
csvRead(text) ==
    IF text = <<>> \/ Head(text) = "#" THEN CsvErr ELSE csvRecord(text, <<>>)

\* The params of one marker line: parts[1] decoded, nil when there is no
\* second part or its decoding fails
lineParams(parts) ==
    IF Len(parts) > 1
    THEN LET r == csvRead(parts[2]) IN IF ~r.err THEN r.fields ELSE <<>>
    ELSE <<>>

lineName(parts) == TrimSpace(parts[1])

\* mergeLine with the prefix test lost: every comment counts as a marker line
mergeLineAnyComment(d, comment) ==
    LET name   == lineName(comment.parts)
        params == lineParams(comment.parts)
    IN  IF DOMAIN d = {} THEN MapSet(NilMap, name, params)
        ELSE IF name \in DOMAIN d /\ params # <<>>
             THEN MapSet(d, name, d[name] \o params)
             ELSE MapSet(d, name, params)

\* mergeLine with the append lost: a later line replaces the entry
mergeLineReplace(d, comment) ==
    IF ~comment.marker THEN d
    ELSE MapSet(d, lineName(comment.parts), lineParams(comment.parts))

\* The body of the range loop of parseDecorators for one comment
mergeLine(d, comment) ==
    IF ~comment.marker THEN d
    ELSE LET name   == lineName(comment.parts)
             params == lineParams(comment.parts)
         IN  IF DOMAIN d = {} THEN MapSet(NilMap, name, params)
             ELSE IF name \in DOMAIN d /\ params # <<>>
                  THEN MapSet(d, name, d[name] \o params)
                  ELSE MapSet(d, name, params)

\* parseDecorators as a whole: the loop over comments.List, nil for no block
RECURSIVE parseLines(_, _)
parseLines(d, list) ==
    IF list = <<>> THEN d ELSE parseLines(mergeLine(d, Head(list)), Tail(list))

parseDecorators(doc) == IF doc.isNil THEN NilMap ELSE parseLines(NilMap, doc.List)

\* The comment lines the parser is run on.  A comment is whether its text has
\* kitCommentPrefix, and the parts kitCommentSep.Split(line, 2) gives (for a
\* comment without the prefix, the parts are never computed by the code).
Heads == {<<"e">>, <<"l">>, <<"e", " ">>}

Tails == {<<>>, <<"h">>, <<" ", "g">>, <<"h", ",", "g">>, <<"\"", "h">>, <<"#", "h">>}

CommentLines ==
    {[marker |-> FALSE, parts |-> <<<<"d">>>>]}
        \cup {[marker |-> TRUE, parts |-> <<h>>] : h \in Heads}
        \cup {[marker |-> TRUE, parts |-> <<h, t>>] : h \in Heads, t \in Tails}

SeqsUpTo(S, n) == UNION {[1..k -> S] : k \in 0..n}

CommentGroups ==
    {[isNil |-> TRUE, List |-> <<>>]}
        \cup {[isNil |-> FALSE, List |-> l] : l \in SeqsUpTo(CommentLines, MaxLines)}

NilGroup == [isNil |-> TRUE, List |-> <<>>]

\* One iteration of "for _, comment := range comments.List"
ParseLine ==
    /\ ~comments.isNil
    /\ line <= Len(comments.List)
    /\ decorators' = mergeLine(decorators, comments.List[line])
    /\ line' = line + 1
    /\ UNCHANGED <<comments, fieldVars, helperVars, walkVars>>

DecDone == comments.isNil \/ line > Len(comments.List)

---------------------------------------------------------------------------
(***************************************************************************)
(* Letter case: strings.ToUpper, ToLower, ToTitle and Title over the       *)
(* letters the model uses.                                                 *)
(***************************************************************************)

LowerLetters == <<"a", "b", "e", "f", "i", "n", "o", "r", "s", "t">>

UpperLetters == <<"A", "B", "E", "F", "I", "N", "O", "R", "S", "T">>

ToUpperCh(c) ==
    IF \E i \in 1..Len(LowerLetters) : LowerLetters[i] = c
    THEN UpperLetters[CHOOSE i \in 1..Len(LowerLetters) : LowerLetters[i] = c]
    ELSE c

ToLowerCh(c) ==
    IF \E i \in 1..Len(UpperLetters) : UpperLetters[i] = c
    THEN LowerLetters[CHOOSE i \in 1..Len(UpperLetters) : UpperLetters[i] = c]
    ELSE c

ToUpper(s) == [i \in 1..Len(s) |-> ToUpperCh(s[i])]

ToLower(s) == [i \in 1..Len(s) |-> ToLowerCh(s[i])]

\* strings.ToTitle maps every letter to its title case, which for these
\* letters is its upper case
ToTitle(s) == [i \in 1..Len(s) |-> ToUpperCh(s[i])]

\* strings.Title's word boundary: anything but a letter, a digit or "_"
IsSeparator(c) == c \in {" ", ",", "/", ".", "*"}

\* strings.Title: the first letter of every word in upper case
Title(s) ==
    [i \in 1..Len(s) |->
        IF i = 1 \/ IsSeparator(s[i - 1]) THEN ToUpperCh(s[i]) ELSE s[i]]

\* The %d verb of fmt.Sprintf for n >= 0
Digits == <<"0", "1", "2", "3", "4", "5", "6", "7", "8", "9">>

RECURSIVE Itoa(_)
Itoa(n) == IF n < 10 THEN <<Digits[n + 1]>> ELSE Append(Itoa(n \div 10), Digits[(n % 10) + 1])

---------------------------------------------------------------------------
(***************************************************************************)
(* The Signature Extractor: TypeRender.parseFieldList.                     *)
(***************************************************************************)

\* names of one entry: the declared names in title case, or one synthetic
\* name made of the first byte of the type name and the counter i
fieldNames(field, i) ==
    IF Len(field.Names) > 0
    THEN [k \in 1..Len(field.Names) |-> Title(field.Names[k])]
    ELSE <<Title(SubSeq(field.Type.Name, 1, 1)) \o Itoa(i)>>

\* fieldEntries with the loop over names lost: one map per field
fieldEntriesFirstOnly(field, i) ==
    <<[Name |-> fieldNames(field, i)[1], Type |-> field.Type.Name]>>

\* "for _, name := range names": one map per name
fieldEntries(field, i) ==
    LET names == fieldNames(field, i) IN
    [k \in 1..Len(names) |-> [Name |-> names[k], Type |-> field.Type.Name]]

\* field.Type.(*ast.Ident) panics on any other expression, fields.List on a
\* nil *ast.FieldList
PanicResult == [panic |-> TRUE, types |-> <<>>]

RECURSIVE fieldLoop(_, _, _)
fieldLoop(list, i, acc) ==
    IF list = <<>> THEN [panic |-> FALSE, types |-> acc]
    ELSE LET field == Head(list) IN
         IF field.Type.kind # "Ident" THEN PanicResult
         ELSE fieldLoop(Tail(list),
                        IF Len(field.Names) > 0 THEN i ELSE i + 1,
                        acc \o fieldEntries(field, i))

parseFieldList(fl) == IF fl.isNil THEN PanicResult ELSE fieldLoop(fl.List, 0, <<>>)

\* The field lists the extractor is run on
MaxFields == 3

FieldTypes ==
    {[kind |-> "Ident", Name |-> <<"i", "n", "t">>],
     [kind |-> "Ident", Name |-> <<"F", "o", "o">>],
     [kind |-> "Star", Name |-> <<"F", "o", "o">>]}

FieldNameLists == {<<>>, <<<<"a">>>>, <<<<"a">>, <<"b">>>>, <<<<"B">>>>}

Fields == {[Names |-> ns, Type |-> t] : ns \in FieldNameLists, t \in FieldTypes}

NilFieldList == [isNil |-> TRUE, List |-> <<>>]

FieldLists ==
    {NilFieldList} \cup {[isNil |-> FALSE, List |-> l] : l \in SeqsUpTo(Fields, MaxFields)}

NotCalled == [called |-> FALSE, panic |-> FALSE, types |-> <<>>]

CallParseFieldList ==
    /\ ~types.called
    /\ types' = LET r == parseFieldList(fields)
                IN  [called |-> TRUE, panic |-> r.panic, types |-> r.types]
    /\ UNCHANGED <<fields, decVars, helperVars, walkVars>>

---------------------------------------------------------------------------
(***************************************************************************)
(* The helper functions of topLevelTemplate's FuncMap.                     *)
(***************************************************************************)

HelperPanic == <<"panic">>

join(a) ==
    LET RECURSIVE j(_)
        j(k) == IF k > Len(a) THEN <<>>
                ELSE (IF k > 1 THEN <<",">> ELSE <<>>) \o a[k] \o j(k + 1)
    IN  j(1)

capitalize(s) == ToTitle(s)

\* s[:1] is out of range for the empty string
uncapitalize(s) ==
    IF Len(s) < 1 THEN HelperPanic
    ELSE ToLower(SubSeq(s, 1, 1)) \o SubSeq(s, 2, Len(s))

upper(s) == ToUpper(s)

lower(s) == ToLower(s)

MaxStr == 3

HelperChars == {"a", "b", "A", "1"}

HelperStrings == SeqsUpTo(HelperChars, MaxStr)

HelperCalls ==
    {[fn |-> f, arg |-> s] :
        f \in {"capitalize", "uncapitalize", "upper", "lower"}, s \in HelperStrings}
      \cup {[fn |-> "join", arg |-> a] : a \in SeqsUpTo({<<"a">>, <<"b", "A">>}, 2)}

NoOut == <<"not called">>

NoCall == [fn |-> "join", arg |-> <<>>]

CallHelper ==
    /\ helperOut = NoOut
    /\ helperOut' = CASE helperArg.fn = "join"         -> join(helperArg.arg)
                      [] helperArg.fn = "capitalize"   -> capitalize(helperArg.arg)
                      [] helperArg.fn = "uncapitalize" -> uncapitalize(helperArg.arg)
                      [] helperArg.fn = "upper"        -> upper(helperArg.arg)
                      [] helperArg.fn = "lower"        -> lower(helperArg.arg)
    /\ UNCHANGED <<helperArg, decVars, fieldVars, walkVars>>

---------------------------------------------------------------------------
(***************************************************************************)
(* The Signature Extractor: TypeRender.parseSpecs.                         *)
(***************************************************************************)

\* r.name: the type name the walk was asked for
TypeName == "Greeter"

\* The loop over intfType.Methods.List: a method whose type is a function
\* type gives its name, its params and its results
RECURSIVE parseMethods(_, _)
parseMethods(list, acc) ==
    IF list = <<>> THEN [panic |-> FALSE, methods |-> acc]
    ELSE LET method == Head(list) IN
         IF method.Type.kind = "FuncType"
         THEN LET ps == parseFieldList(method.Type.Params)
                  rs == parseFieldList(method.Type.Results)
              IN  IF ps.panic \/ rs.panic THEN [panic |-> TRUE, methods |-> <<>>]
                  ELSE parseMethods(Tail(list),
                           Append(acc, [Name    |-> method.Names[1],
                                        Params  |-> ps.types,
                                        Results |-> rs.types]))
         ELSE parseMethods(Tail(list), acc)

\* specMatches with the name test lost
specMatchesAnyName(spec, name) ==
    spec.kind = "TypeSpec" /\ spec.Type.kind = "InterfaceType"

\* The two tests of parseSpecs on one spec
specMatches(spec, name) ==
    /\ spec.kind = "TypeSpec" /\ spec.hasName /\ spec.Name = name
    /\ spec.Type.kind = "InterfaceType"

RECURSIVE specLoop(_, _, _)
specLoop(list, name, acc) ==
    IF list = <<>> THEN [panic |-> FALSE, types |-> acc]
    ELSE LET spec == Head(list) IN
         IF specMatches(spec, name)
         THEN LET ms == parseMethods(spec.Type.Methods, <<>>) IN
              IF ms.panic THEN [panic |-> TRUE, types |-> <<>>]
              ELSE specLoop(Tail(list), name,
                            Append(acc, [Name |-> spec.Name, Methods |-> ms.methods]))
         ELSE specLoop(Tail(list), name, acc)

parseSpecs(list, name) == specLoop(list, name, <<>>)

---------------------------------------------------------------------------
(***************************************************************************)
(* The Template Resolver: loadTemplate over topLevelTemplate.              *)
(***************************************************************************)

\* fmt.Sprintf("/templates/%s/%s.tmpl", decorator, name)
TemplatePath(decorator, name) ==
    <<"/templates/">> \o decorator \o <<"/">> \o name \o <<".tmpl">>

\* topLevelTemplate = template.New("/")
TopLevelName == <<"/">>

\* The name a template file of kind "defines" gives its {{define}} block
DefinedName == TemplatePath(<<"e">>, <<"g">>)

\* A template body: the file it was parsed from, whether it is the file's own
\* text or a {{define}} block of it, and whether executing it succeeds
Body(path, part, ok) == [of |-> path, part |-> part, ok |-> ok]

NoTemplate == Body(<<>>, "none", FALSE)

\* The kinds of file of the namespace: no file; a template; a text that does
\* not parse; a template whose execution fails; a template that also holds
\* {{define DefinedName}}
FileKinds == {"missing", "plain", "syntax", "execerr", "defines"}

FileAt(files, path) == IF path \in DOMAIN files THEN files[path] ELSE "missing"

\* The text of the error FS.Open returns for a path it does not hold
OpenError(path) == <<"open ">> \o path \o <<": file does not exist">>

\* topLevelTemplate.Parse(text): the text becomes the body of the template
\* named "/", and each {{define}} of the text a template of its own name
Parse(reg, path, kind) ==
    LET top == MapSet(reg, TopLevelName, Body(path, "main", kind # "execerr"))
    IN  IF kind = "defines" THEN MapSet(top, DefinedName, Body(path, "define", TRUE))
        ELSE top

\* loadTemplate that renders nothing on a missing file instead of failing
loadTemplateLenient(name, reg, files) ==
    IF name \in DOMAIN reg \/ FileAt(files, name) = "missing"
    THEN [err |-> <<>>,
          tmpl |-> IF name \in DOMAIN reg THEN reg[name] ELSE Body(name, "main", TRUE),
          registry |-> reg, opened |-> IF name \in DOMAIN reg THEN 0 ELSE 1]
    ELSE LET kind == FileAt(files, name) IN
         IF kind = "syntax"
         THEN [err |-> <<"fail to parse template, ">> \o name,
               tmpl |-> NoTemplate, registry |-> reg, opened |-> 1]
         ELSE LET parsed == Parse(reg, name, kind) IN
              [err |-> <<>>, tmpl |-> parsed[TopLevelName],
               registry |-> parsed, opened |-> 1]

\* loadTemplate(name): the template registered under name if there is one;
\* otherwise open, read and parse the file, and return topLevelTemplate.
\* Parse is called on topLevelTemplate itself, so the text becomes the body of
\* "/" and nothing is registered under name.  (Reading a file that was opened
\* does not fail in this model.)
loadTemplate(name, reg, files) ==
    IF name \in DOMAIN reg
    THEN [err |-> <<>>, tmpl |-> reg[name], registry |-> reg, opened |-> 0]
    ELSE LET kind == FileAt(files, name) IN
         IF kind = "missing"
         THEN [err |-> <<"fail to open template, ">> \o OpenError(name),
               tmpl |-> NoTemplate, registry |-> reg, opened |-> 1]
         ELSE IF kind = "syntax"
         THEN [err |-> <<"fail to parse template, ">> \o name,
               tmpl |-> NoTemplate, registry |-> reg, opened |-> 1]
         ELSE LET parsed == Parse(reg, name, kind) IN
              [err |-> <<>>, tmpl |-> parsed[TopLevelName],
               registry |-> parsed, opened |-> 1]

---------------------------------------------------------------------------
(***************************************************************************)
(* The Declaration Walker: TypeRender.visit.                               *)
(***************************************************************************)

MaxVisits == 2

\* visit up to its loops: the decorators and the specs of a type declaration
\* group (nothing for any other node, nil included)
visitDecl(node) ==
    IF node.kind = "GenDecl" /\ node.Tok = "TYPE"
    THEN LET d == parseDecorators(node.Doc) IN
         IF DOMAIN d # {}
         THEN LET sp == parseSpecs(node.Specs, TypeName) IN
              [panic |-> sp.panic, decorators |-> d, specs |-> sp.types]
         ELSE [panic |-> FALSE, decorators |-> d, specs |-> <<>>]
    ELSE [panic |-> FALSE, decorators |-> NilMap, specs |-> <<>>]

\* pairsOf ranging over the names from the last to the first
pairsOfReversed(d, decorator) ==
    [k \in 1..Len(d[decorator]) |->
        <<decorator, d[decorator][Len(d[decorator]) + 1 - k]>>]

\* "for _, name := range names" for one decorator: its pairs, in order
pairsOf(d, decorator) == [k \in 1..Len(d[decorator]) |-> <<decorator, d[decorator][k]>>]

\* "for decorator, names := range decorators", the keys taken in this order
RECURSIVE renderOrder(_, _)
renderOrder(d, order) ==
    IF order = <<>> THEN <<>>
    ELSE pairsOf(d, Head(order)) \o renderOrder(d, Tail(order))

\* The orders a range over a map with these keys may take
KeyOrders(keys) ==
    {o \in [1..Cardinality(keys) -> keys] : \A i, j \in DOMAIN o : i # j => o[i] # o[j]}

\* What a visited node was: a type declaration group, with a marker line in
\* its documentation, with a spec of the requested name that is an interface
IsTypeDecl(node) == node.kind = "GenDecl" /\ node.Tok = "TYPE"

HasMarkerLine(doc) == ~doc.isNil /\ \E i \in 1..Len(doc.List) : doc.List[i].marker

HasMatchingInterface(list) ==
    \E i \in 1..Len(list) :
        /\ list[i].kind = "TypeSpec" /\ list[i].hasName /\ list[i].Name = TypeName
        /\ list[i].Type.kind = "InterfaceType"

\* The number of parameter tokens of a decorator map
RECURSIVE TokenCount(_)
TokenCount(d) ==
    IF DOMAIN d = {} THEN 0
    ELSE LET k == CHOOSE x \in DOMAIN d : TRUE
         IN  Len(d[k]) + TokenCount([x \in DOMAIN d \ {k} |-> d[x]])

NodeFacts(node) ==
    [typeDecl  |-> IsTypeDecl(node),
     decorated |-> node.kind = "GenDecl" /\ HasMarkerLine(node.Doc),
     matching  |-> node.kind = "GenDecl" /\ HasMatchingInterface(node.Specs),
     tokens    |-> TokenCount(parseDecorators(node.Doc))]

\* The nodes the walk meets.
Marker(head, tail) == [marker |-> TRUE, parts |-> <<head, tail>>]

DocOf(list) == [isNil |-> FALSE, List |-> list]

WalkDocs ==
    {NilGroup,
     \* an ordinary comment
     DocOf(<<[marker |-> FALSE, parts |-> <<<<"e">>, <<"h">>>>]>>),
     \* //kit:e
     DocOf(<<[marker |-> TRUE, parts |-> <<<<"e">>>>]>>),
     \* //kit:e h
     DocOf(<<Marker(<<"e">>, <<"h">>)>>),
     \* //kit:e h,g
     DocOf(<<Marker(<<"e">>, <<"h", ",", "g">>)>>),
     \* //kit:e g and //kit:e h, an ordinary comment between them
     DocOf(<<Marker(<<"e">>, <<"g">>),
             [marker |-> FALSE, parts |-> <<<<"l">>, <<"h">>>>],
             Marker(<<"e">>, <<"h">>)>>),
     \* //kit:e h and //kit:e h
     DocOf(<<Marker(<<"e">>, <<"h">>), Marker(<<"e">>, <<"h">>)>>),
     \* //kit:e h and //kit:l h
     DocOf(<<Marker(<<"e">>, <<"h">>), Marker(<<"l">>, <<"h">>)>>),
     \* //kit:l "h, whose parameters do not decode
     DocOf(<<Marker(<<"l">>, <<"\"", "h">>)>>)}

IdentExpr(n) == [kind |-> "Ident", Name |-> n]

FieldListOf(l) == [isNil |-> FALSE, List |-> l]

FuncType(params, results) ==
    [kind |-> "FuncType", Params |-> params, Results |-> results]

\* Greet(name string) (string, error)
GreetMethod ==
    [Names |-> <<"Greet">>,
     Type  |-> FuncType(
        FieldListOf(<<[Names |-> <<<<"n">>>>, Type |-> IdentExpr(<<"s">>)]>>),
        FieldListOf(<<[Names |-> <<>>, Type |-> IdentExpr(<<"s">>)],
                      [Names |-> <<>>, Type |-> IdentExpr(<<"e">>)]>>))]

\* Close(): a function type without results has a nil Results
CloseMethod ==
    [Names |-> <<"Close">>,
     Type  |-> FuncType(FieldListOf(<<>>), NilFieldList)]

\* an embedded interface: a method field whose type is an identifier
EmbeddedMethod ==
    [Names |-> <<>>,
     Type  |-> [kind |-> "Ident", Params |-> NilFieldList, Results |-> NilFieldList]]

InterfaceType(methods) == [kind |-> "InterfaceType", Methods |-> methods]

StructType == [kind |-> "StructType", Methods |-> <<>>]

TypeSpec(name, type) == [kind |-> "TypeSpec", hasName |-> TRUE, Name |-> name, Type |-> type]

ValueSpec == [kind |-> "ValueSpec", hasName |-> FALSE, Name |-> "", Type |-> StructType]

WalkSpecLists ==
    {<<TypeSpec("Greeter", InterfaceType(<<EmbeddedMethod, GreetMethod>>))>>,
     <<TypeSpec("Greeter", InterfaceType(<<GreetMethod, CloseMethod>>))>>,
     <<TypeSpec("Greeter", StructType)>>,
     <<TypeSpec("greeter", InterfaceType(<<GreetMethod>>))>>,
     <<TypeSpec("Other", InterfaceType(<<GreetMethod>>)),
       TypeSpec("Greeter", InterfaceType(<<GreetMethod>>))>>}

NilNode == [kind |-> "nil", Tok |-> "", Doc |-> NilGroup, Specs |-> <<>>]

Nodes ==
    {NilNode, [kind |-> "FuncDecl", Tok |-> "", Doc |-> NilGroup, Specs |-> <<>>]}
        \cup {[kind |-> "GenDecl", Tok |-> "VAR", Doc |-> d, Specs |-> <<ValueSpec>>] :
                d \in {dd \in WalkDocs : Len(dd.List) = 1}}
        \cup {[kind |-> "GenDecl", Tok |-> "TYPE", Doc |-> d, Specs |-> sp] :
                d \in WalkDocs, sp \in WalkSpecLists}

\* The template namespaces the walk runs against
PathEH == TemplatePath(<<"e">>, <<"h">>)

PathEG == TemplatePath(<<"e">>, <<"g">>)

PathLH == TemplatePath(<<"l">>, <<"h">>)

WalkPaths == {PathEH, PathEG, PathLH}

FileSystems ==
    {f \in [WalkPaths -> FileKinds] :
        f[PathEG] \in {"missing", "plain"} /\ f[PathLH] \in {"missing", "plain", "execerr"}}

NoFatal == <<>>

WalkIdle ==
    /\ fs = [q \in WalkPaths |-> "missing"] /\ registry = NilMap
    /\ pc = "walk" /\ visits = 0 /\ specs = <<>> /\ work = <<>>
    /\ buf = <<>> /\ loads = <<>> /\ opens = 0 /\ fatal = NoFatal /\ history = <<>>

\* One call of visit, up to the first rendering.  When visit returns, its
\* locals (decorators, specs) are gone.
Visit ==
    /\ pc = "walk"
    /\ visits < MaxVisits
    /\ \E node \in Nodes :
        LET out == visitDecl(node) IN
        /\ visits' = visits + 1
        /\ history' = Append(history, NodeFacts(node))
        /\ IF out.panic
           THEN /\ pc' = "panic" /\ work' = <<>>
                /\ decorators' = out.decorators /\ specs' = out.specs
           ELSE IF Len(out.specs) > 0
           THEN \E order \in KeyOrders(DOMAIN out.decorators) :
                    /\ work' = renderOrder(out.decorators, order)
                    /\ IF work' = <<>>
                       THEN pc' = "walk" /\ decorators' = NilMap /\ specs' = <<>>
                       ELSE /\ pc' = "render"
                            /\ decorators' = out.decorators /\ specs' = out.specs
           ELSE /\ pc' = "walk" /\ work' = <<>>
                /\ decorators' = NilMap /\ specs' = <<>>
    /\ UNCHANGED <<fs, registry, buf, loads, opens, fatal>>
    /\ UNCHANGED <<comments, line, fieldVars, helperVars>>

\* What tmpl.Execute(&r.buf, specs) writes for one (decorator, name) pair
Chunk(tmpl, data, pair, whole) ==
    [tmpl |-> tmpl, data |-> data, from |-> visits, for |-> pair, whole |-> whole]

\* One iteration of the inner loop of visit: loadTemplate, then Execute; an
\* error of either is log.Fatal, and a failed Execute may have written a part
RenderOne ==
    /\ pc = "render"
    /\ work # <<>>
    /\ LET pair == Head(work)
           path == TemplatePath(pair[1], pair[2])
           l    == loadTemplate(path, registry, fs)
       IN  /\ loads' = Append(loads, path)
           /\ opens' = opens + l.opened
           /\ registry' = l.registry
           /\ IF l.err # <<>>
              THEN /\ pc' = "exit" /\ fatal' = l.err
                   /\ UNCHANGED <<buf, work, decorators, specs>>
              ELSE IF l.tmpl.ok
              THEN /\ buf' = Append(buf, Chunk(l.tmpl, specs, pair, TRUE))
                   /\ work' = Tail(work)
                   /\ UNCHANGED fatal
                   /\ IF Tail(work) = <<>>
                      THEN pc' = "walk" /\ decorators' = NilMap /\ specs' = <<>>
                      ELSE pc' = "render" /\ UNCHANGED <<decorators, specs>>
              ELSE /\ buf' \in {buf, Append(buf, Chunk(l.tmpl, specs, pair, FALSE))}
                   /\ pc' = "exit" /\ fatal' = <<"template: ">> \o path
                   /\ UNCHANGED <<work, decorators, specs>>
    /\ UNCHANGED <<fs, visits, history>>
    /\ UNCHANGED <<comments, line, fieldVars, helperVars>>

Init ==
    /\ comments = NilGroup /\ line = 1 /\ decorators = NilMap
    /\ fields = NilFieldList /\ types = NotCalled
    /\ helperArg = NoCall /\ helperOut = NoOut
    /\ fs \in FileSystems /\ registry = NilMap
    /\ pc = "walk" /\ visits = 0 /\ specs = <<>> /\ work = <<>>
    /\ buf = <<>> /\ loads = <<>> /\ opens = 0 /\ fatal = NoFatal /\ history = <<>>

Next == Visit \/ RenderOne

Spec == Init /\ [][Next]_vars

---------------------------------------------------------------------------
\* The specifications of the three pure parts, each run on its own inputs.

InitDecorators ==
    /\ comments \in CommentGroups /\ line = 1 /\ decorators = NilMap
    /\ fields = NilFieldList /\ types = NotCalled
    /\ helperArg = NoCall /\ helperOut = NoOut
    /\ WalkIdle

NextDecorators == ParseLine

SpecDecorators == InitDecorators /\ [][NextDecorators]_vars

InitFieldList ==
    /\ comments = NilGroup /\ line = 1 /\ decorators = NilMap
    /\ fields \in FieldLists /\ types = NotCalled
    /\ helperArg = NoCall /\ helperOut = NoOut
    /\ WalkIdle

NextFieldList == CallParseFieldList

SpecFieldList == InitFieldList /\ [][NextFieldList]_vars

InitHelpers ==
    /\ comments = NilGroup /\ line = 1 /\ decorators = NilMap
    /\ fields = NilFieldList /\ types = NotCalled
    /\ helperArg \in HelperCalls /\ helperOut = NoOut
    /\ WalkIdle

NextHelpers == CallHelper

SpecHelpers == InitHelpers /\ [][NextHelpers]_vars

---------------------------------------------------------------------------
(***************************************************************************)
(* Properties of the decorator comment parser.                             *)
(***************************************************************************)

CommentAt(i) == comments.List[i]

NameAt(i) == lineName(CommentAt(i).parts)

ParamsAt(i) == lineParams(CommentAt(i).parts)

MarkerLines == {i \in 1..Len(comments.List) : CommentAt(i).marker}

\* C1: a further marker line of a name that already has an entry, supplying no
\* parameters (no parameter part, or one whose CSV decoding fails), leaves the
\* entry of that name as it was.
C1_NoParamsKeepsEntry ==
    [][(/\ line' = line + 1
        /\ CommentAt(line).marker
        /\ NameAt(line) \in DOMAIN decorators
        /\ ParamsAt(line) = <<>>)
            => decorators'[NameAt(line)] = decorators[NameAt(line)]]_vars

\* The lines i < j are the two marker lines of one name, the second with
\* parameters.
TwoLinesOf(i, j) ==
    /\ i < j
    /\ NameAt(i) = NameAt(j)
    /\ {k \in MarkerLines : NameAt(k) = NameAt(i)} = {i, j}
    /\ ParamsAt(j) # <<>>

\* C2: a name on two marker lines of one block with parameters P1 and then P2
\* (P2 non-empty) ends as one entry P1 \o P2, whatever lines of other
\* decorators stand before, between or after the two.
C2_MergeLaw ==
    DecDone =>
        \A i, j \in MarkerLines :
            TwoLinesOf(i, j) =>
                /\ NameAt(i) \in DOMAIN decorators
                /\ decorators[NameAt(i)] = ParamsAt(i) \o ParamsAt(j)

C2_Witness ==
    /\ ~comments.isNil /\ line > Len(comments.List)
    /\ \E i, j, k \in MarkerLines :
        /\ TwoLinesOf(i, j)
        /\ i < k /\ k < j /\ NameAt(k) # NameAt(i)
        /\ ParamsAt(i) # <<>>
        /\ Len(decorators[NameAt(i)]) >= 3

(***************************************************************************)
(* Properties of the signature extractor.                                  *)
(***************************************************************************)

FieldAt(k) == fields.List[k]

\* Where the entries of field k start in the result: every earlier field
\* gave one entry per declared name, or one synthetic entry.
RECURSIVE EntriesBefore(_)
EntriesBefore(k) ==
    IF k <= 1 THEN 0
    ELSE EntriesBefore(k - 1)
            + (IF Len(FieldAt(k - 1).Names) > 0 THEN Len(FieldAt(k - 1).Names) ELSE 1)

UnnamedBefore(k) == Cardinality({m \in 1..(k - 1) : Len(FieldAt(m).Names) = 0})

\* Upper case for the first letter only
CapFirst(s) == IF s = <<>> THEN <<>> ELSE <<ToUpperCh(Head(s))>> \o Tail(s)

LowerFirst(s) == IF s = <<>> THEN <<>> ELSE <<ToLowerCh(Head(s))>> \o Tail(s)

Returned == types.called /\ ~types.panic

\* C3: an entry without a name yields exactly one pair, named by the
\* capitalized full type name followed by the zero-based count of the unnamed
\* entries before it in this field list.
C3_SyntheticNames ==
    Returned =>
        \A k \in 1..Len(fields.List) :
            Len(FieldAt(k).Names) = 0 =>
                /\ EntriesBefore(k) + 1 <= Len(types.types)
                /\ types.types[EntriesBefore(k) + 1] =
                       [Name |-> CapFirst(FieldAt(k).Type.Name) \o Itoa(UnnamedBefore(k)),
                        Type |-> FieldAt(k).Type.Name]

\* The entries of the declared names of field k, each name mapped by f.
NamedEntries(k, f(_)) ==
    /\ EntriesBefore(k) + Len(FieldAt(k).Names) <= Len(types.types)
    /\ \A n \in 1..Len(FieldAt(k).Names) :
           types.types[EntriesBefore(k) + n] =
               [Name |-> f(FieldAt(k).Names[n]), Type |-> FieldAt(k).Type.Name]

AsDeclared(name) == name

C9_FirstLetterOnly ==
    helperOut # NoOut =>
        /\ helperArg.fn = "capitalize" => helperOut = CapFirst(helperArg.arg)
        /\ helperArg.fn = "uncapitalize" => helperOut = LowerFirst(helperArg.arg)

(***************************************************************************)
(* Properties of the walker and the template resolver.                     *)
(***************************************************************************)

\* sub occurs in text, as a run of consecutive elements
Contains(text, sub) ==
    \E i \in 0..(Len(text) - Len(sub)) : SubSeq(text, i + 1, i + Len(sub)) = sub

NextPair == Head(work)

NextPath == TemplatePath(NextPair[1], NextPair[2])

\* log.Fatal ended the run on a failed open, with an error that names the
\* decorator and the parameter, nothing written and the pair still pending
AbortsOnOpen ==
    /\ pc' = "exit"
    /\ Contains(fatal', <<"fail to open template, ">>)
    /\ Contains(fatal', NextPair[1]) /\ Contains(fatal', NextPair[2])
    /\ buf' = buf /\ work' = work

\* C5 as stated: when the next pair's file is missing, the run aborts there
\* with an error naming decorator and parameter, nothing is appended for the
\* pair, and no step follows the abort.
C5_MissingFileAborts ==
    [][/\ pc # "exit"
       /\ (pc = "render" /\ FileAt(fs, NextPath) = "missing") => AbortsOnOpen]_vars

\* C5 as amended: the same, when no template is registered under the path
\* either (an earlier file may hold a {{define}} of that very name).
C5_MissingUnregisteredAborts ==
    [][/\ pc # "exit"
       /\ (/\ pc = "render"
           /\ FileAt(fs, NextPath) = "missing"
           /\ NextPath \notin DOMAIN registry) => AbortsOnOpen]_vars

C5_Witness ==
    /\ pc = "exit"
    /\ fatal = <<"fail to open template, ">> \o OpenError(NextPath)
    /\ Len(work) >= 2
    /\ buf # <<>>
    /\ DefinedName \in DOMAIN registry

Facts(v) == history[v]

\* C6: a visit of a node that is no type declaration group, or of one whose
\* documentation is absent or has no marker line, leaves the buffer as it
\* was and resolves no template, whatever was visited before.
C6_UndecoratedLeavesBuffer ==
    [][(/\ visits' = visits + 1
        /\ ~(history'[visits'].typeDecl /\ history'[visits'].decorated))
            => /\ buf' = buf /\ loads' = loads /\ opens' = opens
               /\ registry' = registry
               /\ pc' = "walk" /\ work' = <<>>]_vars

C6_Witness ==
    /\ visits >= 2 /\ pc = "walk"
    /\ Facts(visits).typeDecl /\ Facts(visits).matching /\ ~Facts(visits).decorated
    /\ Len(buf) >= 2
    /\ \A i \in 1..Len(buf) : buf[i].from < visits

\* C7: all output comes from declarations with a spec of the requested name
\* that is an interface; any other decorated declaration writes nothing and
\* ends in no error.
C7_OnlyMatchingRender ==
    /\ \A i \in 1..Len(buf) : Facts(buf[i].from).typeDecl /\ Facts(buf[i].from).matching
    /\ pc \in {"render", "exit", "panic"} => Facts(visits).matching

C7_Witness ==
    /\ visits = 2 /\ pc = "walk"
    /\ Facts(1).typeDecl /\ Facts(1).decorated /\ Facts(1).tokens > 0 /\ ~Facts(1).matching
    /\ Facts(2).matching
    /\ buf # <<>>
    /\ \A i \in 1..Len(buf) : buf[i].from = 2

\* C8: once loadTemplate has succeeded for a path, a later loadTemplate of
\* that path finds it registered under the path and returns it without
\* opening the file again, and what it returns has the body of that path.
C8_CachedByPath ==
    [][(pc = "render" /\ NextPath \in Range(loads))
            => /\ NextPath \in DOMAIN registry
               /\ opens' = opens
               /\ Len(buf') > Len(buf) => buf'[Len(buf')].tmpl.of = NextPath]_vars

\* The chunks of visit v, and of them those of one decorator
RECURSIVE ChunksOf(_, _)
ChunksOf(b, v) ==
    IF b = <<>> THEN <<>>
    ELSE (IF Head(b).from = v THEN <<Head(b)>> ELSE <<>>) \o ChunksOf(Tail(b), v)

RECURSIVE ParamsFor(_, _)
ParamsFor(chunks, decorator) ==
    IF chunks = <<>> THEN <<>>
    ELSE (IF Head(chunks).for[1] = decorator THEN <<Head(chunks).for[2]>> ELSE <<>>)
            \o ParamsFor(Tail(chunks), decorator)

VisitReturns == pc' = "walk" /\ (pc = "render" \/ visits' = visits + 1)

\* C10: a visit of a decorated declaration with a matching interface that
\* returns has resolved and rendered one template per parameter token of
\* each decorator (none for an empty parameter sequence); every step only
\* appends to the buffer; and the renderings of one decorator stand in the
\* order of its parameter sequence.
C10_OnePerTokenInOrder ==
    [][/\ IsPrefix(buf, buf')
       /\ pc' \in {"walk", "render"} =>
            /\ Len(loads') = Len(buf')
            /\ \A i \in 1..Len(buf') :
                    /\ loads'[i] = TemplatePath(buf'[i].for[1], buf'[i].for[2])
                    /\ buf'[i].whole
       /\ (VisitReturns /\ history'[visits'].typeDecl /\ history'[visits'].matching) =>
            /\ Len(ChunksOf(buf', visits')) = history'[visits'].tokens
            /\ pc = "render" =>
                \A name \in DOMAIN decorators :
                    ParamsFor(ChunksOf(buf', visits'), name) = decorators[name]]_vars

C10_Witness ==
    /\ pc = "walk" /\ visits = 2
    /\ Len(buf) = 3
    /\ buf[1].from = 1
    /\ buf[2].from = 2 /\ buf[2].for = <<<<"e">>, <<"g">>>>
    /\ buf[3].from = 2 /\ buf[3].for = <<<<"e">>, <<"h">>>>
    /\ Facts(2).tokens = 2

===========================================================================
